---- MODULE Spec2Model ----
(***************************************************************************)
(* Plant identifier: the identifyPlant flow (reconciliation of the model's *)
(* answer against IdentifyPlantOutputSchema) and the PlantIdentifier       *)
(* component (React state, identification requests in flight, favourites   *)
(* list and its localStorage slot).                                        *)
(*                                                                         *)
(* JavaScript strings are sequences of one-character strings, so that      *)
(* trim(), toLowerCase() and template concatenation are computed.  A       *)
(* JavaScript value is a record [t, s, b, a]: its type tag, the characters *)
(* of a string, the value of a boolean, the elements of an array.  An      *)
(* object is a function from field names to values; a missing key and a    *)
(* key holding undefined are the same value Undef, as a property read      *)
(* cannot tell them apart.                                                 *)
(***************************************************************************)
EXTENDS Integers, Sequences, FiniteSets, TLC

VARIABLES
    flowPc,         \* identifyPlantFlow: "idle", "replied", "done"
    modelReply,     \* what plantAnalysisPrompt(input) produced
    flowOutcome,    \* what identifyPlant(input) gave its caller
    imagePreview,   \* React state of PlantIdentifier
    imageDataUri,
    isLoading,
    result,
    error,
    favourites,
    storage,        \* localStorage[FAVORITES_STORAGE_KEY]
    mountPc,        \* progress of the mount effects and pending save effect
    tasks,          \* asynchronous operations in flight
    started,        \* number of uploads and retries started so far
    hist            \* history of the last events, read by the properties only

vars == <<flowPc, modelReply, flowOutcome, imagePreview, imageDataUri, isLoading,
          result, error, favourites, storage, mountPc, tasks, started, hist>>

flowVars == <<flowPc, modelReply, flowOutcome>>

uiVars == <<imagePreview, imageDataUri, isLoading, result, error, favourites,
            storage, mountPc, tasks, started, hist>>

----------------------------------------------------------------------------
(* JavaScript values *)

Undef == [t |-> "undefined", s |-> <<>>, b |-> FALSE, a |-> <<>>]

JsNull == [t |-> "null", s |-> <<>>, b |-> FALSE, a |-> <<>>]

Str(chars) == [t |-> "string", s |-> chars, b |-> FALSE, a |-> <<>>]

Bool(v) == [t |-> "boolean", s |-> <<>>, b |-> v, a |-> <<>>]

Num(digits) == [t |-> "number", s |-> digits, b |-> FALSE, a |-> <<>>]

Arr(elems) == [t |-> "array", s |-> <<>>, b |-> FALSE, a |-> elems]

\* typeof v
TypeOf(v) == IF v.t \in {"null", "array"} THEN "object" ELSE v.t

\* Array.isArray(v)
IsArray(v) == v.t = "array"

\* JavaScript truthiness of v
Truthy(v) ==
    CASE v.t = "undefined" -> FALSE
      [] v.t = "null" -> FALSE
      [] v.t = "string" -> v.s # <<>>
      [] v.t = "boolean" -> v.b
      [] v.t = "number" -> v.s # <<"0">>
      [] OTHER -> TRUE

----------------------------------------------------------------------------
(* String.prototype.trim and toLowerCase *)

WhiteSpace == {" ", "\t", "\n"}

RECURSIVE TrimStart(_)
TrimStart(chars) ==
    IF chars # <<>> /\ Head(chars) \in WhiteSpace THEN TrimStart(Tail(chars)) ELSE chars

RECURSIVE TrimEnd(_)
TrimEnd(chars) ==
    IF chars # <<>> /\ chars[Len(chars)] \in WhiteSpace
    THEN TrimEnd(SubSeq(chars, 1, Len(chars) - 1))
    ELSE chars

Trim(chars) == TrimEnd(TrimStart(chars))

LowerOf ==
    ("A" :> "a") @@ ("B" :> "b") @@ ("C" :> "c") @@ ("D" :> "d") @@ ("E" :> "e") @@
    ("F" :> "f") @@ ("G" :> "g") @@ ("H" :> "h") @@ ("I" :> "i") @@ ("J" :> "j") @@
    ("K" :> "k") @@ ("L" :> "l") @@ ("M" :> "m") @@ ("N" :> "n") @@ ("O" :> "o") @@
    ("P" :> "p") @@ ("Q" :> "q") @@ ("R" :> "r") @@ ("S" :> "s") @@ ("T" :> "t") @@
    ("U" :> "u") @@ ("V" :> "v") @@ ("W" :> "w") @@ ("X" :> "x") @@ ("Y" :> "y") @@
    ("Z" :> "z")

ToLowerCase(chars) ==
    [i \in 1..Len(chars) |-> IF chars[i] \in DOMAIN LowerOf THEN LowerOf[chars[i]] ELSE chars[i]]

----------------------------------------------------------------------------
(* String literals of the source and of the inputs *)

sUnknown == <<"U", "n", "k", "n", "o", "w", "n">>

sunknown == <<"u", "n", "k", "n", "o", "w", "n">>

DefaultCare == <<"C", "a", "r", "e", " ", "i", "n", "f", "o", "r", "m", "a", "t", "i", "o", "n", " ", "u", "n", "a", "v", "a", "i", "l", "a", "b", "l", "e", ".">>

DefaultHealth == <<"H", "e", "a", "l", "t", "h", " ", "s", "t", "a", "t", "u", "s", " ", "u", "n", "a", "v", "a", "i", "l", "a", "b", "l", "e", ".">>

DefaultActions == <<"P", "r", "o", "p", "o", "s", "e", "d", " ", "a", "c", "t", "i", "o", "n", "s", " ", "u", "n", "a", "v", "a", "i", "l", "a", "b", "l", "e", ".">>

sUNKNOWNpad == <<" ", "U", "N", "K", "N", "O", "W", "N", " ">>

sRose == <<"R", "o", "s", "e">>

sRosePad == <<" ", "R", "o", "s", "e">>

sFern == <<"F", "e", "r", "n">>

sDandelion == <<"D", "a", "n", "d", "e", "l", "i", "o", "n">>

sRosa == <<"R", "o", "s", "a">>

sAugust == <<"A", "u", "g", "u", "s", "t">>

sYes == <<"y", "e", "s">>

sWater == <<"W", "a", "t", "e", "r">>

sOk == <<"O", "k">>

n123 == <<"1", "2", "3">>

----------------------------------------------------------------------------
(* IdentifyPlantOutputSchema *)

RequiredStrings == {"commonName", "careInstructions", "healthStatus", "proposedActions"}

OptionalStrings ==
    {"latinName", "height", "spread", "growthRate", "floweringInfo", "pruningInfo",
     "fruitGrowthSeason", "fruitCareInstructions", "fruitHarvestTime"}

FruitFields == {"fruitGrowthSeason", "fruitCareInstructions", "fruitHarvestTime"}

SchemaFields ==
    RequiredStrings \cup OptionalStrings \cup {"isWeed", "isEdibleFruit", "alternativeNames"}

\* "confidence" stands for any key the schema does not declare
Fields == SchemaFields \cup {"confidence"}

EmptyObj == [k \in Fields |-> Undef]

\* one field of IdentifyPlantOutputSchema accepts the value v
FieldValid(k, v) ==
    CASE k \in RequiredStrings -> v.t = "string"
      [] k \in OptionalStrings -> v.t \in {"string", "undefined"}
      [] k = "isWeed" -> v.t = "boolean"
      [] k = "isEdibleFruit" -> v.t \in {"boolean", "undefined"}
      [] k = "alternativeNames" ->
            \/ v.t = "undefined"
            \/ v.t = "array" /\ \A i \in 1..Len(v.a) : v.a[i].t = "string"
      [] OTHER -> TRUE

\* IdentifyPlantOutputSchema.safeParse(o): z.object strips the undeclared keys
SafeParse(o) ==
    [success |-> \A k \in SchemaFields : FieldValid(k, o[k]),
     data |-> [k \in Fields |-> IF k \in SchemaFields THEN o[k] ELSE Undef]]

----------------------------------------------------------------------------
(* identifyPlantFlow and identifyPlant *)

NullRet == [isNull |-> TRUE, obj |-> EmptyObj]

Some(o) == [isNull |-> FALSE, obj |-> o]

\* name.filter(name => typeof name === 'string')
FilterStrings(elems) == SelectSeq(elems, LAMBDA e : TypeOf(e) = "string")

\* the fruit spread entries of partialOutput
FruitEntry(output, k) ==
    IF output["isEdibleFruit"] = Bool(TRUE) /\ TypeOf(output[k]) = "string"
    THEN output[k]
    ELSE Undef

\* partialOutput with the placeholder of healthStatus pasted into careInstructions
PartialOutputPastedDefault(output) ==
    [k \in Fields |->
        CASE k = "commonName" -> output[k]
          [] k = "latinName" -> IF TypeOf(output[k]) = "string" THEN output[k] ELSE Undef
          [] k = "alternativeNames" ->
                IF IsArray(output[k]) THEN Arr(FilterStrings(output[k].a)) ELSE Undef
          [] k = "isWeed" -> IF TypeOf(output[k]) = "boolean" THEN output[k] ELSE Bool(FALSE)
          [] k = "careInstructions" ->
                IF TypeOf(output[k]) = "string" THEN output[k] ELSE Str(DefaultHealth)
          [] k = "healthStatus" ->
                IF TypeOf(output[k]) = "string" THEN output[k] ELSE Str(DefaultHealth)
          [] k = "proposedActions" ->
                IF TypeOf(output[k]) = "string" THEN output[k] ELSE Str(DefaultActions)
          [] k \in {"height", "spread", "growthRate", "floweringInfo", "pruningInfo"} ->
                IF TypeOf(output[k]) = "string" THEN output[k] ELSE Undef
          [] k = "isEdibleFruit" ->
                IF TypeOf(output[k]) = "boolean" THEN output[k] ELSE Undef
          [] k \in FruitFields -> FruitEntry(output, k)
          [] OTHER -> Undef]

\* partialOutput storing the trimmed name
PartialOutputTrimsName(output) ==
    [k \in Fields |->
        CASE k = "commonName" -> Str(Trim(output[k].s))
          [] k = "latinName" -> IF TypeOf(output[k]) = "string" THEN output[k] ELSE Undef
          [] k = "alternativeNames" ->
                IF IsArray(output[k]) THEN Arr(FilterStrings(output[k].a)) ELSE Undef
          [] k = "isWeed" -> IF TypeOf(output[k]) = "boolean" THEN output[k] ELSE Bool(FALSE)
          [] k = "careInstructions" ->
                IF TypeOf(output[k]) = "string" THEN output[k] ELSE Str(DefaultCare)
          [] k = "healthStatus" ->
                IF TypeOf(output[k]) = "string" THEN output[k] ELSE Str(DefaultHealth)
          [] k = "proposedActions" ->
                IF TypeOf(output[k]) = "string" THEN output[k] ELSE Str(DefaultActions)
          [] k \in {"height", "spread", "growthRate", "floweringInfo", "pruningInfo"} ->
                IF TypeOf(output[k]) = "string" THEN output[k] ELSE Undef
          [] k = "isEdibleFruit" ->
                IF TypeOf(output[k]) = "boolean" THEN output[k] ELSE Undef
          [] k \in FruitFields -> FruitEntry(output, k)
          [] OTHER -> Undef]

\* partialOutput copying latinName whatever its type
PartialOutputCopiesLatinName(output) ==
    [k \in Fields |->
        CASE k = "commonName" -> output[k]
          [] k = "latinName" -> output[k]
          [] k = "alternativeNames" ->
                IF IsArray(output[k]) THEN Arr(FilterStrings(output[k].a)) ELSE Undef
          [] k = "isWeed" -> IF TypeOf(output[k]) = "boolean" THEN output[k] ELSE Bool(FALSE)
          [] k = "careInstructions" ->
                IF TypeOf(output[k]) = "string" THEN output[k] ELSE Str(DefaultCare)
          [] k = "healthStatus" ->
                IF TypeOf(output[k]) = "string" THEN output[k] ELSE Str(DefaultHealth)
          [] k = "proposedActions" ->
                IF TypeOf(output[k]) = "string" THEN output[k] ELSE Str(DefaultActions)
          [] k \in {"height", "spread", "growthRate", "floweringInfo", "pruningInfo"} ->
                IF TypeOf(output[k]) = "string" THEN output[k] ELSE Undef
          [] k = "isEdibleFruit" ->
                IF TypeOf(output[k]) = "boolean" THEN output[k] ELSE Undef
          [] k \in FruitFields -> FruitEntry(output, k)
          [] OTHER -> Undef]


\* the object literal partialOutput
PartialOutput(output) ==
    [k \in Fields |->
        CASE k = "commonName" -> output[k]
          [] k = "latinName" -> IF TypeOf(output[k]) = "string" THEN output[k] ELSE Undef
          [] k = "alternativeNames" ->
                IF IsArray(output[k]) THEN Arr(FilterStrings(output[k].a)) ELSE Undef
          [] k = "isWeed" -> IF TypeOf(output[k]) = "boolean" THEN output[k] ELSE Bool(FALSE)
          [] k = "careInstructions" ->
                IF TypeOf(output[k]) = "string" THEN output[k] ELSE Str(DefaultCare)
          [] k = "healthStatus" ->
                IF TypeOf(output[k]) = "string" THEN output[k] ELSE Str(DefaultHealth)
          [] k = "proposedActions" ->
                IF TypeOf(output[k]) = "string" THEN output[k] ELSE Str(DefaultActions)
          [] k \in {"height", "spread", "growthRate", "floweringInfo", "pruningInfo"} ->
                IF TypeOf(output[k]) = "string" THEN output[k] ELSE Undef
          [] k = "isEdibleFruit" ->
                IF TypeOf(output[k]) = "boolean" THEN output[k] ELSE Undef
          [] k \in FruitFields -> FruitEntry(output, k)
          [] OTHER -> Undef]

\* the name lower-cased without trim()
NormalisedNameUntrimmed(reply) ==
    IF ~reply.hasOutput \/ reply.output["commonName"].t \in {"undefined", "null"}
    THEN [threw |-> FALSE, defined |-> FALSE, chars |-> <<>>]
    ELSE IF reply.output["commonName"].t # "string"
    THEN [threw |-> TRUE, defined |-> FALSE, chars |-> <<>>]
    ELSE [threw |-> FALSE, defined |-> TRUE,
          chars |-> ToLowerCase(reply.output["commonName"].s)]

\* output?.commonName?.trim().toLowerCase(): [threw, defined, chars]
NormalisedName(reply) ==
    IF ~reply.hasOutput \/ reply.output["commonName"].t \in {"undefined", "null"}
    THEN [threw |-> FALSE, defined |-> FALSE, chars |-> <<>>]
    ELSE IF reply.output["commonName"].t # "string"
    THEN [threw |-> TRUE, defined |-> FALSE, chars |-> <<>>]
    ELSE [threw |-> FALSE, defined |-> TRUE,
          chars |-> ToLowerCase(Trim(reply.output["commonName"].s))]

\* the try block rebuilding the object on the valid path too
ReconcileRebuildsAlways(reply) ==
    LET commonName == NormalisedName(reply)
        output == reply.output
        partialValidation == SafeParse(PartialOutput(output))
    IN  IF commonName.threw THEN NullRet
        ELSE IF ~reply.hasOutput \/ ~commonName.defined \/ commonName.chars = <<>>
                \/ commonName.chars = sunknown
        THEN NullRet
        ELSE IF partialValidation.success THEN Some(partialValidation.data) ELSE NullRet

\* the body of the try block once the prompt has answered
Reconcile(reply) ==
    LET commonName == NormalisedName(reply)
        output == reply.output
        validation == SafeParse(output)
        partialValidation == SafeParse(PartialOutput(output))
    IN  IF commonName.threw THEN NullRet
        ELSE IF ~reply.hasOutput \/ ~commonName.defined \/ commonName.chars = <<>>
                \/ commonName.chars = sunknown
        THEN NullRet
        ELSE IF ~validation.success
        THEN IF Truthy(output["commonName"]) /\ output["commonName"] # Str(sUnknown)
             THEN IF partialValidation.success THEN Some(partialValidation.data) ELSE NullRet
             ELSE NullRet
        ELSE Some(validation.data)

\* the flow function: try { ... } catch (error) { return null }
identifyPlantFlow(reply) ==
    IF reply.threw THEN [threw |-> FALSE, value |-> NullRet]
    ELSE [threw |-> FALSE, value |-> Reconcile(reply)]

\* identifyPlant: awaits the flow and wraps its value
identifyPlant(reply) ==
    LET r == identifyPlantFlow(reply)
    IN  [threw |-> r.threw, plantIdentification |-> r.value]

----------------------------------------------------------------------------
(* Bounds *)

\* uploads and retries a behaviour may start
MaxRequests == 2

\* longest favourites list a behaviour may build
MaxFavs == 2

----------------------------------------------------------------------------
(* Answers of plantAnalysisPrompt *)

\* a complete, schema-valid answer
Answer(name) ==
    [k \in Fields |->
        CASE k = "commonName" -> Str(name)
          [] k = "isWeed" -> Bool(FALSE)
          [] k = "careInstructions" -> Str(sWater)
          [] k = "healthStatus" -> Str(sOk)
          [] k = "proposedActions" -> Str(sWater)
          [] OTHER -> Undef]

Reply(o) == [threw |-> FALSE, hasOutput |-> TRUE, output |-> o]

PromptThrew == [threw |-> TRUE, hasOutput |-> FALSE, output |-> EmptyObj]

NoOutput == [threw |-> FALSE, hasOutput |-> FALSE, output |-> EmptyObj]

\* the candidates the flow is checked on: every combination of these field values
FlowCandidates ==
    [commonName : {Undef, JsNull, Num(n123), Str(<<>>), Str(<<" ">>), Str(sUnknown),
                   Str(sUNKNOWNpad), Str(sRosePad), Str(sDandelion)},
     latinName : {Undef, Str(sRosa), Num(n123)},
     alternativeNames : {Undef, Arr(<<Str(sRose)>>), Arr(<<Str(sRose), Num(n123)>>)},
     isWeed : {Bool(TRUE), Str(sYes), Undef},
     careInstructions : {Str(sWater), Num(n123)},
     healthStatus : {Str(sOk), Undef},
     proposedActions : {Str(sWater), JsNull},
     height : {Undef, JsNull},
     spread : {Str(sOk)},
     growthRate : {Undef},
     floweringInfo : {Str(sAugust)},
     pruningInfo : {Undef},
     isEdibleFruit : {Undef, Bool(TRUE), Bool(FALSE), Str(sYes)},
     fruitGrowthSeason : {Undef, Str(sAugust)},
     fruitCareInstructions : {Undef, Str(sWater)},
     fruitHarvestTime : {Undef, Str(sAugust), Num(n123)},
     confidence : {Undef, Num(n123)}]

FlowReplies == {PromptThrew, NoOutput} \cup {Reply(o) : o \in FlowCandidates}

NoReply == NoOutput

NoOutcome == [threw |-> FALSE, plantIdentification |-> NullRet]

----------------------------------------------------------------------------
(* PlantIdentifier: values of the component's state *)

NoUri == <<>>

NoError == [isNull |-> TRUE, message |-> "", retryable |-> FALSE]

Err(message, retryable) == [isNull |-> FALSE, message |-> message, retryable |-> retryable]

sImageJpeg == <<"i", "m", "a", "g", "e", "/", "j", "p", "e", "g">>

sImagePng == <<"i", "m", "a", "g", "e", "/", "p", "n", "g">>

sTextPlain == <<"t", "e", "x", "t", "/", "p", "l", "a", "i", "n">>

sImagePrefix == <<"i", "m", "a", "g", "e", "/">>

\* file.type.startsWith(prefix)
StartsWith(chars, prefix) ==
    Len(chars) >= Len(prefix) /\ SubSeq(chars, 1, Len(prefix)) = prefix

\* the files the user can pick
Files ==
    {[name |-> "a", type |-> sImageJpeg], [name |-> "b", type |-> sImagePng],
     [name |-> "notes", type |-> sTextPlain]}

NoFile == [name |-> "", type |-> <<>>]

\* what resizeImage and readFileAsDataURI resolve with
ResizedUri(file) == <<file.name, "resized">>

OriginalUri(file) == <<file.name, "original">>

\* the answers the prompt gives in the component's behaviours
RoseAnswer == Answer(sRose)

RosaAnswer == [Answer(sRose) EXCEPT !["latinName"] = Str(sRosa)]

DandelionAnswer ==
    [Answer(sDandelion) EXCEPT !["isWeed"] = Str(sYes), !["careInstructions"] = Num(n123)]

\* a second answer named Rose without a Latin name, differing in isWeed
RoseWeedAnswer == [Answer(sRose) EXCEPT !["isWeed"] = Bool(TRUE)]

\* an answer whose common name is "Rose-Rosa", without a Latin name
RoseRosaAnswer == Answer(sRose \o <<"-">> \o sRosa)

UIReplies ==
    {PromptThrew, Reply(Answer(sUnknown)), Reply(RoseAnswer), Reply(RosaAnswer),
     Reply(DandelionAnswer), Reply(RoseWeedAnswer), Reply(RoseRosaAnswer)}

----------------------------------------------------------------------------
(* localStorage slot and JSON *)

\* JSON.stringify of one value: undefined inside an array becomes null
JsonValue(v) ==
    IF v.t = "array"
    THEN Arr([i \in 1..Len(v.a) |-> IF v.a[i].t = "undefined" THEN JsNull ELSE v.a[i]])
    ELSE v

\* JSON.stringify(favourites): keys holding undefined are left out
JsonStringify(list) ==
    [kind |-> "json", list |-> [i \in 1..Len(list) |-> [k \in Fields |-> JsonValue(list[i][k])]]]

NoItem == [kind |-> "none", list |-> <<>>]

InvalidJson == [kind |-> "invalid", list |-> <<>>]

\* an entry as the spec's scenario stores it: {commonName: "Fern"}
FernOnly == [EmptyObj EXCEPT !["commonName"] = Str(sFern)]

FernAnswer == [Answer(sFern) EXCEPT !["latinName"] = Str(sFern)]

\* the stored text "{}": JSON.parse gives an object, not an array
StoredObject == [kind |-> "json", list |-> EmptyObj]

\* whether a value the favourites state holds is an array (has length and map)
IsListValue(v) == v # EmptyObj

\* what the slot may hold when the component mounts
InitialStorages ==
    {NoItem, InvalidJson, StoredObject, JsonStringify(<<FernOnly>>),
     JsonStringify(<<FernAnswer, RoseAnswer>>)}

----------------------------------------------------------------------------
(* Favourite identity *)

RECURSIVE JoinChars(_)
JoinChars(elems) ==
    IF elems = <<>> THEN <<>>
    ELSE IF Len(elems) = 1 THEN Head(elems).s
    ELSE Head(elems).s \o <<",">> \o JoinChars(Tail(elems))

\* `${v}`
ToStr(v) ==
    CASE v.t = "string" -> v.s
      [] v.t = "number" -> v.s
      [] v.t = "boolean" -> IF v.b THEN <<"t", "r", "u", "e">> ELSE <<"f", "a", "l", "s", "e">>
      [] v.t = "null" -> <<"n", "u", "l", "l">>
      [] v.t = "undefined" -> <<"u", "n", "d", "e", "f", "i", "n", "e", "d">>
      [] OTHER -> JoinChars(v.a)

\* a key that takes the weed flag in when there is no Latin name
PlantIdWithWeedFlag(plant) ==
    IF Truthy(plant["latinName"])
    THEN Str(ToStr(plant["commonName"]) \o <<"-">> \o ToStr(plant["latinName"]))
    ELSE Str(ToStr(plant["commonName"]) \o <<"-">> \o ToStr(plant["isWeed"]))

\* plant.latinName ? `${plant.commonName}-${plant.latinName}` : plant.commonName
PlantId(plant) ==
    IF Truthy(plant["latinName"])
    THEN Str(ToStr(plant["commonName"]) \o <<"-">> \o ToStr(plant["latinName"]))
    ELSE plant["commonName"]

\* result?.latinName ? `${result.commonName}-${result.latinName}` : result?.commonName
CurrentResultId(r) == IF r.isNull THEN Undef ELSE PlantId(r.obj)

\* favourites.some(fav => favId === plantId)
IsFavourite(list, plantId) == \E i \in 1..Len(list) : PlantId(list[i]) = plantId

\* the filter with its test inverted: favId === plantId
RemoveFavouriteInverted(prev, plantId) == SelectSeq(prev, LAMBDA fav : PlantId(fav) = plantId)

\* prev.filter(fav => favId !== plantId)
RemoveFavourite(prev, plantId) == SelectSeq(prev, LAMBDA fav : PlantId(fav) # plantId)

\* [plant, ...prev]
AddFavouritePrepends(prev, plant) == <<plant>> \o prev

\* [...prev, plant]
AddFavourite(prev, plant) == Append(prev, plant)

\* the memo isCurrentResultFavourite
IsCurrentResultFavourite(r, list) ==
    IF r.isNull \/ ~Truthy(r.obj["commonName"]) THEN FALSE
    ELSE IsFavourite(list, PlantId(r.obj))

----------------------------------------------------------------------------
(* PlantIdentifier: what is rendered *)

\* {error && !isLoading && ... error.retryable && imageDataUri && <Button onClick={handleRetry}>}
RetryOffered == ~error.isNull /\ ~isLoading /\ error.retryable /\ imageDataUri # NoUri

\* {result && !isLoading && !error && <Card id="plant-result-card">}
ResultCardShown == ~result.isNull /\ ~isLoading /\ error.isNull

\* {imagePreview && ... !isLoading && <Button onClick={clearImage}>}
ClearOffered == imagePreview # NoUri /\ ~isLoading

\* the upload and camera buttons and inputs: disabled={isLoading}
UploadEnabled == ~isLoading

IdentifyCalls == {t \in tasks : t.kind = "identify"}

----------------------------------------------------------------------------
(* History read by the properties *)

HistInit ==
    [last |-> "none", failedUri |-> NoUri, current |-> 0,
     phase |-> "none", before |-> <<>>, key |-> Undef,
     slotAtMount |-> NoItem, edited |-> FALSE]

\* the history after a step that leaves the favourites list alone
Note(event) == [hist EXCEPT !.last = event]

----------------------------------------------------------------------------
(* Mount effects and the save effect *)

\* useEffect(() => { ...getItem, JSON.parse, setFavourites... }, [])
LoadFavourites ==
    /\ mountPc = "load"
    /\ IF storage.kind = "json"
       THEN /\ favourites' = storage.list
            /\ mountPc' = "save_first_loaded"
       ELSE /\ favourites' = favourites
            /\ mountPc' = "save_first"
    /\ hist' = [hist EXCEPT !.last = "load", !.slotAtMount = storage]
    /\ UNCHANGED <<imagePreview, imageDataUri, isLoading, result, error, storage, tasks, started>>
    /\ UNCHANGED flowVars

\* the save effect with an empty dependency list: it never runs again
SaveInitialFavouritesOnly ==
    /\ mountPc \in {"save_first", "save_first_loaded"}
    /\ storage' = JsonStringify(<<>>)
    /\ mountPc' = "ready"
    /\ hist' = Note("save_first")
    /\ UNCHANGED <<imagePreview, imageDataUri, isLoading, result, error, favourites, tasks, started>>
    /\ UNCHANGED flowVars

\* first run of the save effect: it closes over the initial state, the empty list
SaveInitialFavourites ==
    /\ mountPc \in {"save_first", "save_first_loaded"}
    /\ storage' = JsonStringify(<<>>)
    /\ mountPc' = IF mountPc = "save_first_loaded" THEN "save" ELSE "ready"
    /\ hist' = Note("save_first")
    /\ UNCHANGED <<imagePreview, imageDataUri, isLoading, result, error, favourites, tasks, started>>
    /\ UNCHANGED flowVars

\* the save effect without its setItem call
SaveFavouritesSkipsWrite ==
    /\ mountPc = "save"
    /\ IsListValue(favourites)
    /\ storage' = storage
    /\ mountPc' = "ready"
    /\ hist' = Note("save")
    /\ UNCHANGED <<imagePreview, imageDataUri, isLoading, result, error, favourites, tasks, started>>
    /\ UNCHANGED flowVars

\* the re-render after setFavourites, then
\* useEffect(() => { localStorage.setItem(KEY, JSON.stringify(favourites)) }, [favourites])
SaveFavourites ==
    /\ mountPc = "save"
    /\ IsListValue(favourites)
    /\ storage' = JsonStringify(favourites)
    /\ mountPc' = "ready"
    /\ hist' = Note("save")
    /\ UNCHANGED <<imagePreview, imageDataUri, isLoading, result, error, favourites, tasks, started>>
    /\ UNCHANGED flowVars

\* the re-render with a favourites value that is not an array:
\* favourites.length === 0 is false and favourites.map is not a function
RenderThrows ==
    /\ mountPc = "save"
    /\ ~IsListValue(favourites)
    /\ mountPc' = "crashed"
    /\ hist' = Note("render_threw")
    /\ UNCHANGED <<imagePreview, imageDataUri, isLoading, result, error, favourites, storage,
                   tasks, started>>
    /\ UNCHANGED flowVars

----------------------------------------------------------------------------
(* handleFileChange and identifyPlantAndUpdateState *)

\* handleFileChange without setResult(null) on a file that is not an image
HandleFileChangeInvalidKeepsResult(file) ==
    /\ mountPc = "ready"
    /\ UploadEnabled
    /\ ~StartsWith(file.type, sImagePrefix)
    /\ error' = Err("not-an-image", FALSE)
    /\ imagePreview' = NoUri
    /\ imageDataUri' = NoUri
    /\ result' = result
    /\ hist' = Note("invalid_file")
    /\ UNCHANGED <<isLoading, favourites, storage, mountPc, tasks, started>>
    /\ UNCHANGED flowVars


\* a file that is not an image
HandleFileChangeInvalid(file) ==
    /\ mountPc = "ready"
    /\ UploadEnabled
    /\ ~StartsWith(file.type, sImagePrefix)
    /\ error' = Err("not-an-image", FALSE)
    /\ imagePreview' = NoUri
    /\ imageDataUri' = NoUri
    /\ result' = NullRet
    /\ hist' = Note("invalid_file")
    /\ UNCHANGED <<isLoading, favourites, storage, mountPc, tasks, started>>
    /\ UNCHANGED flowVars

\* an image: state cleared, resizeImage awaited
HandleFileChange(file) ==
    /\ mountPc = "ready"
    /\ UploadEnabled
    /\ StartsWith(file.type, sImagePrefix)
    /\ started < MaxRequests
    /\ error' = NoError
    /\ result' = NullRet
    /\ isLoading' = TRUE
    /\ imagePreview' = NoUri
    /\ imageDataUri' = NoUri
    /\ started' = started + 1
    /\ tasks' = tasks \cup {[id |-> started + 1, kind |-> "resize", file |-> file, uri |-> NoUri]}
    /\ hist' = [hist EXCEPT !.last = "upload", !.current = started + 1]
    /\ UNCHANGED <<favourites, storage, mountPc>>
    /\ UNCHANGED flowVars

\* setImagePreview, setImageDataUri, then identifyPlantAndUpdateState up to its await
StartIdentify(t, dataUri) ==
    /\ imagePreview' = dataUri
    /\ imageDataUri' = dataUri
    /\ result' = NullRet
    /\ error' = NoError
    /\ isLoading' = TRUE
    /\ tasks' = (tasks \ {t}) \cup {[t EXCEPT !.kind = "identify", !.uri = dataUri]}

ResizeResolved(t) ==
    /\ t.kind = "resize"
    /\ StartIdentify(t, ResizedUri(t.file))
    /\ hist' = Note("resized")
    /\ UNCHANGED <<favourites, storage, mountPc, started>>
    /\ UNCHANGED flowVars

\* catch (resizeError): readFileAsDataURI awaited
ResizeRejected(t) ==
    /\ t.kind = "resize"
    /\ tasks' = (tasks \ {t}) \cup {[t EXCEPT !.kind = "read"]}
    /\ hist' = Note("resize_failed")
    /\ UNCHANGED <<imagePreview, imageDataUri, isLoading, result, error, favourites, storage,
                   mountPc, started>>
    /\ UNCHANGED flowVars

ReadResolved(t) ==
    /\ t.kind = "read"
    /\ StartIdentify(t, OriginalUri(t.file))
    /\ hist' = Note("read")
    /\ UNCHANGED <<favourites, storage, mountPc, started>>
    /\ UNCHANGED flowVars

\* the read failure branch without setIsLoading(false)
ReadRejectedKeepsLoading(t) ==
    /\ t.kind = "read"
    /\ error' = Err("read-failed", FALSE)
    /\ isLoading' = isLoading
    /\ imagePreview' = NoUri
    /\ imageDataUri' = NoUri
    /\ tasks' = tasks \ {t}
    /\ hist' = Note("read_failed")
    /\ UNCHANGED <<result, favourites, storage, mountPc, started>>
    /\ UNCHANGED flowVars


\* catch (readError)
ReadRejected(t) ==
    /\ t.kind = "read"
    /\ error' = Err("read-failed", FALSE)
    /\ isLoading' = FALSE
    /\ imagePreview' = NoUri
    /\ imageDataUri' = NoUri
    /\ tasks' = tasks \ {t}
    /\ hist' = Note("read_failed")
    /\ UNCHANGED <<result, favourites, storage, mountPc, started>>
    /\ UNCHANGED flowVars

\* the server action call did not get through
CallRejected == [threw |-> TRUE, plantIdentification |-> NullRet]

\* what `await identifyPlant({photoDataUri})` settles with
CallOutcomes == {CallRejected} \cup {identifyPlant(r) : r \in UIReplies}

\* identifyPlantAndUpdateState marking the null identification retryable
IdentifySettledNullRetryable(t, outcome) ==
    /\ t.kind = "identify"
    /\ IF outcome.threw
       THEN /\ error' = Err("analysis-error", TRUE)
            /\ result' = NullRet
            /\ hist' = [hist EXCEPT !.last = "threw", !.failedUri = t.uri]
       ELSE IF ~outcome.plantIdentification.isNull
       THEN /\ result' = outcome.plantIdentification
            /\ error' = NoError
            /\ hist' = Note("identified")
       ELSE /\ result' = NullRet
            /\ error' = Err("not-identified", TRUE)
            /\ hist' = Note("not_identified")
    /\ isLoading' = FALSE
    /\ tasks' = tasks \ {t}
    /\ UNCHANGED <<imagePreview, imageDataUri, favourites, storage, mountPc, started>>
    /\ UNCHANGED flowVars


\* identifyPlantAndUpdateState without its finally block
IdentifySettledKeepsLoading(t, outcome) ==
    /\ t.kind = "identify"
    /\ IF outcome.threw
       THEN /\ error' = Err("analysis-error", TRUE)
            /\ result' = NullRet
            /\ hist' = [hist EXCEPT !.last = "threw", !.failedUri = t.uri]
       ELSE IF ~outcome.plantIdentification.isNull
       THEN /\ result' = outcome.plantIdentification
            /\ error' = NoError
            /\ hist' = Note("identified")
       ELSE /\ result' = NullRet
            /\ error' = Err("not-identified", FALSE)
            /\ hist' = Note("not_identified")
    /\ isLoading' = isLoading
    /\ tasks' = tasks \ {t}
    /\ UNCHANGED <<imagePreview, imageDataUri, favourites, storage, mountPc, started>>
    /\ UNCHANGED flowVars


\* identifyPlantAndUpdateState after its await: try / catch / finally
IdentifySettled(t, outcome) ==
    /\ t.kind = "identify"
    /\ IF outcome.threw
       THEN /\ error' = Err("analysis-error", TRUE)
            /\ result' = NullRet
            /\ hist' = [hist EXCEPT !.last = "threw", !.failedUri = t.uri]
       ELSE IF ~outcome.plantIdentification.isNull
       THEN /\ result' = outcome.plantIdentification
            /\ error' = NoError
            /\ hist' = Note("identified")
       ELSE /\ result' = NullRet
            /\ error' = Err("not-identified", FALSE)
            /\ hist' = Note("not_identified")
    /\ isLoading' = FALSE
    /\ tasks' = tasks \ {t}
    /\ UNCHANGED <<imagePreview, imageDataUri, favourites, storage, mountPc, started>>
    /\ UNCHANGED flowVars

HandleRetry ==
    /\ mountPc = "ready"
    /\ RetryOffered
    /\ started < MaxRequests
    /\ IF imageDataUri # NoUri
       THEN /\ result' = NullRet
            /\ error' = NoError
            /\ isLoading' = TRUE
            /\ started' = started + 1
            /\ tasks' = tasks \cup {[id |-> started + 1, kind |-> "identify", file |-> NoFile,
                                     uri |-> imageDataUri]}
            /\ hist' = [hist EXCEPT !.last = "retry", !.current = started + 1]
       ELSE /\ error' = Err("cannot-retry", FALSE)
            /\ hist' = Note("retry_without_image")
            /\ UNCHANGED <<result, isLoading, started, tasks>>
    /\ UNCHANGED <<imagePreview, imageDataUri, favourites, storage, mountPc>>
    /\ UNCHANGED flowVars

\* clearImage emptying the favourites list as well
ClearImageClearsFavourites ==
    /\ mountPc = "ready"
    /\ ClearOffered
    /\ imagePreview' = NoUri
    /\ imageDataUri' = NoUri
    /\ result' = NullRet
    /\ error' = NoError
    /\ isLoading' = FALSE
    /\ hist' = Note("clear")
    /\ favourites' = <<>>
    /\ UNCHANGED <<storage, mountPc, tasks, started>>
    /\ UNCHANGED flowVars


ClearImage ==
    /\ mountPc = "ready"
    /\ ClearOffered
    /\ imagePreview' = NoUri
    /\ imageDataUri' = NoUri
    /\ result' = NullRet
    /\ error' = NoError
    /\ isLoading' = FALSE
    /\ hist' = Note("clear")
    /\ UNCHANGED <<favourites, storage, mountPc, tasks, started>>
    /\ UNCHANGED flowVars

----------------------------------------------------------------------------
(* Favourites *)

\* handleToggleFavourite clearing the result on every removal
HandleToggleFavouriteClearsAlways(plant) ==
    /\ mountPc = "ready"
    /\ IF ~Truthy(plant["commonName"])
       THEN /\ hist' = Note("toggle_ignored")
            /\ UNCHANGED <<favourites, result, mountPc>>
       ELSE LET plantId == PlantId(plant)
            IN  IF IsFavourite(favourites, plantId)
                THEN /\ favourites' = RemoveFavourite(favourites, plantId)
                     /\ result' = NullRet
                     /\ mountPc' = "save"
                     /\ hist' = [hist EXCEPT !.last = "removed", !.edited = TRUE,
                                             !.phase = IF hist.phase = "added" /\ hist.key = plantId
                                                       THEN "removed" ELSE "none"]
                ELSE /\ Len(favourites) < MaxFavs
                     /\ favourites' = AddFavourite(favourites, plant)
                     /\ mountPc' = "save"
                     /\ hist' = [hist EXCEPT !.last = "added", !.phase = "added", !.edited = TRUE,
                                             !.before = favourites, !.key = plantId]
                     /\ UNCHANGED result
    /\ UNCHANGED <<imagePreview, imageDataUri, isLoading, error, storage, tasks, started>>
    /\ UNCHANGED flowVars


HandleToggleFavourite(plant) ==
    /\ mountPc = "ready"
    /\ IF ~Truthy(plant["commonName"])
       THEN /\ hist' = Note("toggle_ignored")
            /\ UNCHANGED <<favourites, result, mountPc>>
       ELSE LET plantId == PlantId(plant)
            IN  IF IsFavourite(favourites, plantId)
                THEN /\ favourites' = RemoveFavourite(favourites, plantId)
                     /\ result' = IF CurrentResultId(result) = plantId THEN NullRet ELSE result
                     /\ mountPc' = "save"
                     /\ hist' = [hist EXCEPT !.last = "removed", !.edited = TRUE,
                                             !.phase = IF hist.phase = "added" /\ hist.key = plantId
                                                       THEN "removed" ELSE "none"]
                ELSE /\ Len(favourites) < MaxFavs
                     /\ favourites' = AddFavourite(favourites, plant)
                     /\ mountPc' = "save"
                     /\ hist' = [hist EXCEPT !.last = "added", !.phase = "added", !.edited = TRUE,
                                             !.before = favourites, !.key = plantId]
                     /\ UNCHANGED result
    /\ UNCHANGED <<imagePreview, imageDataUri, isLoading, error, storage, tasks, started>>
    /\ UNCHANGED flowVars

\* the heart button of the result card
ToggleCurrentResult == ResultCardShown /\ HandleToggleFavourite(result.obj)

\* two clicks on the heart button dispatched before the re-render: both
\* handlers close over the rendered favourites, where the plant is missing,
\* and React applies the two queued updaters (prev) => [...prev, plant] in turn
ToggleCurrentResultTwice ==
    /\ mountPc = "ready"
    /\ ResultCardShown
    /\ Truthy(result.obj["commonName"])
    /\ ~IsFavourite(favourites, PlantId(result.obj))
    /\ Len(favourites) + 2 <= MaxFavs
    /\ favourites' = AddFavourite(AddFavourite(favourites, result.obj), result.obj)
    /\ mountPc' = "save"
    /\ hist' = [hist EXCEPT !.last = "added_twice", !.phase = "none", !.edited = TRUE]
    /\ UNCHANGED <<imagePreview, imageDataUri, isLoading, result, error, storage, tasks, started>>
    /\ UNCHANGED flowVars

\* the remove button of an entry of the favourites list
ToggleListEntry(i) == HandleToggleFavourite(favourites[i])

HandleSelectFavourite(favPlant) ==
    /\ mountPc = "ready"
    /\ result' = Some(favPlant)
    /\ error' = NoError
    /\ isLoading' = FALSE
    /\ imagePreview' = NoUri
    /\ imageDataUri' = NoUri
    /\ hist' = [hist EXCEPT !.last = "selected", !.current = 0]
    /\ UNCHANGED <<favourites, storage, mountPc, tasks, started>>
    /\ UNCHANGED flowVars

----------------------------------------------------------------------------
(* The flow on its own *)

\* identifyPlant(input) returns to its caller
IdentifyPlantReturns ==
    /\ flowPc = "called"
    /\ flowOutcome' = identifyPlant(modelReply)
    /\ flowPc' = "done"
    /\ UNCHANGED modelReply
    /\ UNCHANGED uiVars

----------------------------------------------------------------------------
(* Specifications *)

UIConstructed ==
    /\ imagePreview = NoUri
    /\ imageDataUri = NoUri
    /\ isLoading = FALSE
    /\ result = NullRet
    /\ error = NoError
    /\ favourites = <<>>
    /\ mountPc = "load"
    /\ tasks = {}
    /\ started = 0
    /\ hist = HistInit

Init ==
    /\ UIConstructed
    /\ storage \in InitialStorages
    /\ flowPc = "idle"
    /\ modelReply = NoReply
    /\ flowOutcome = NoOutcome

SelectsInvalidFile == \E file \in Files : HandleFileChangeInvalid(file)

SelectsImage == \E file \in Files : HandleFileChange(file)

ResizeResolves == \E t \in tasks : ResizeResolved(t)

ResizeRejects == \E t \in tasks : ResizeRejected(t)

ReadResolves == \E t \in tasks : ReadResolved(t)

ReadRejects == \E t \in tasks : ReadRejected(t)

IdentifySettles == \E t \in tasks : \E outcome \in CallOutcomes : IdentifySettled(t, outcome)

TogglesListEntry == mountPc = "ready" /\ \E i \in 1..Len(favourites) : ToggleListEntry(i)

SelectsFavourite ==
    mountPc = "ready" /\ \E i \in 1..Len(favourites) : HandleSelectFavourite(favourites[i])

Next ==
    \/ LoadFavourites
    \/ SaveInitialFavourites
    \/ SaveFavourites
    \/ RenderThrows
    \/ SelectsInvalidFile
    \/ SelectsImage
    \/ ResizeResolves
    \/ ResizeRejects
    \/ ReadResolves
    \/ ReadRejects
    \/ IdentifySettles
    \/ HandleRetry
    \/ ClearImage
    \/ ToggleCurrentResult
    \/ ToggleCurrentResultTwice
    \/ TogglesListEntry
    \/ SelectsFavourite

Spec == Init /\ [][Next]_vars

InitFlow ==
    /\ UIConstructed
    /\ storage = NoItem
    /\ flowPc = "called"
    /\ modelReply \in FlowReplies
    /\ flowOutcome = NoOutcome

NextFlow == IdentifyPlantReturns

SpecFlow == InitFlow /\ [][NextFlow]_vars

----------------------------------------------------------------------------
(* Properties of the flow, checked under SpecFlow *)

\* a proper name: a string that is neither empty nor "unknown" once trimmed and lower-cased
ProperName(o) ==
    /\ o["commonName"].t = "string"
    /\ ToLowerCase(Trim(o["commonName"].s)) \notin {<<>>, sunknown}

FlowDone == flowPc = "done"

Accepted == FlowDone /\ ~flowOutcome.threw /\ ~flowOutcome.plantIdentification.isNull

Rejected == FlowDone /\ ~flowOutcome.threw /\ flowOutcome.plantIdentification.isNull

AcceptedObj == flowOutcome.plantIdentification.obj

Candidate == modelReply.output

\* the four fields that get a placeholder, and their placeholders
Defaulted == {"isWeed", "careInstructions", "healthStatus", "proposedActions"}

DefaultOf(k) ==
    CASE k = "isWeed" -> Bool(FALSE)
      [] k = "careInstructions" -> Str(DefaultCare)
      [] k = "healthStatus" -> Str(DefaultHealth)
      [] k = "proposedActions" -> Str(DefaultActions)

\* C1: a candidate that is absent, or whose commonName is absent, empty or
\* "unknown" after trimming and lower-casing, is rejected (null is returned),
\* whatever its other fields are.
ImproperNameRejected ==
    (/\ FlowDone
     /\ ~modelReply.threw
     /\ \/ ~modelReply.hasOutput
        \/ Candidate["commonName"].t = "undefined"
        \/ /\ Candidate["commonName"].t = "string"
           /\ ToLowerCase(Trim(Candidate["commonName"].s)) \in {<<>>, sunknown})
    => Rejected

\* C1 witness: " UNKNOWN " on an otherwise schema-valid candidate was rejected
PaddedUnknownRejected ==
    /\ FlowDone
    /\ modelReply.hasOutput
    /\ Candidate["commonName"] = Str(sUNKNOWNpad)
    /\ SafeParse(Candidate).success
    /\ Rejected

\* C2: a schema-valid candidate with a proper name is accepted and every
\* schema field of the result equals the candidate's field.
ValidCandidatePassedThrough ==
    (/\ FlowDone
     /\ ~modelReply.threw
     /\ modelReply.hasOutput
     /\ SafeParse(Candidate).success
     /\ ProperName(Candidate))
    => /\ Accepted
       /\ \A k \in SchemaFields : AcceptedObj[k] = Candidate[k]

\* C2 witness: a valid candidate carrying a fruit field next to isEdibleFruit false
ValidCandidateAccepted ==
    /\ FlowDone
    /\ modelReply.hasOutput
    /\ SafeParse(Candidate).success
    /\ ProperName(Candidate)
    /\ Candidate["isEdibleFruit"] = Bool(FALSE)
    /\ Candidate["fruitHarvestTime"] = Str(sAugust)
    /\ Accepted

\* the case of C3: a proper name, and validation fails on the four fields only
MalformedRequiredOnly ==
    /\ FlowDone
    /\ ~modelReply.threw
    /\ modelReply.hasOutput
    /\ ProperName(Candidate)
    /\ \E k \in Defaulted : ~FieldValid(k, Candidate[k])
    /\ \A k \in SchemaFields \ Defaulted : FieldValid(k, Candidate[k])

\* the four fields carry the placeholder exactly where the candidate was malformed
PlaceholdersWhereMalformed ==
    \A k \in Defaulted :
        AcceptedObj[k] = IF FieldValid(k, Candidate[k]) THEN Candidate[k] ELSE DefaultOf(k)

\* C3 as stated: exactly the malformed fields carry their placeholder and
\* every field that was valid in the candidate keeps its value.
RepairKeepsEveryValidField ==
    MalformedRequiredOnly
    => /\ Accepted
       /\ PlaceholdersWhereMalformed
       /\ \A k \in SchemaFields \ Defaulted : AcceptedObj[k] = Candidate[k]

\* C3 amended: exactly the malformed fields carry their placeholder and every
\* valid field keeps its value, except that a fruit field is left out unless
\* isEdibleFruit is true.
RepairKeepsValidFieldsButFruit ==
    MalformedRequiredOnly
    => /\ Accepted
       /\ PlaceholdersWhereMalformed
       /\ \A k \in (SchemaFields \ Defaulted) \ FruitFields : AcceptedObj[k] = Candidate[k]
       /\ \A k \in FruitFields :
            AcceptedObj[k] = IF Candidate["isEdibleFruit"] = Bool(TRUE) THEN Candidate[k] ELSE Undef

\* C3 witness: {commonName: "Dandelion", isWeed: "yes", careInstructions: 123} repaired
DandelionRepaired ==
    /\ MalformedRequiredOnly
    /\ Candidate["commonName"] = Str(sDandelion)
    /\ Candidate["isWeed"] = Str(sYes)
    /\ Candidate["careInstructions"] = Num(n123)
    /\ Accepted
    /\ AcceptedObj["isWeed"] = Bool(FALSE)
    /\ AcceptedObj["careInstructions"] = Str(DefaultCare)

\* C4: in an accepted result a fruit field is present if and only if the
\* candidate had isEdibleFruit === true and the field was a string.
FruitFieldsOnlyWithEdibleFruit ==
    Accepted
    => \A k \in FruitFields :
         (AcceptedObj[k] # Undef)
         <=> (Candidate["isEdibleFruit"] = Bool(TRUE) /\ Candidate[k].t = "string")

\* C5: when the prompt invocation throws, identifyPlant throws to its caller.
PromptFailurePropagates ==
    (FlowDone /\ modelReply.threw) => flowOutcome.threw

----------------------------------------------------------------------------
(* Properties of the component, checked under Spec *)

\* C6: when an identification call throws, the result is empty, the error is
\* retryable and the retry action is offered; the retry issues one new call
\* carrying the data URI of the failed call.
ThrownCallOffersRetryOfSameImage ==
    /\ hist.last = "threw"
       => (result.isNull /\ ~error.isNull /\ error.retryable /\ RetryOffered)
    /\ hist.last = "retry"
       => \E t \in IdentifyCalls :
            /\ t.id = started
            /\ t.uri = hist.failedUri
            /\ \A u \in tasks : u.id = started => u = t

\* C7: at most one identification request is in flight at any time.
AtMostOneRequestInFlight == Cardinality(IdentifyCalls) <= 1

\* C8: a response of a request that is no longer the user's most recent action
\* (a newer request was started, or a favourite was selected) leaves the
\* result and error slots as they are.
StaleResponseIgnored ==
    [][(\E t \in IdentifyCalls : t \notin tasks' /\ t.id # hist.current)
       => (result' = result /\ error' = error)]_vars

\* C9: the result slot is empty or holds a schema-valid object with a proper
\* commonName.
ResultSlotSchemaValid ==
    result.isNull \/ (SafeParse(result.obj).success /\ ProperName(result.obj))

\* C10: adding a result that is not a favourite and then removing it by its
\* identity key leaves the favourites list as it was before the add.
AddThenRemoveRestoresList == hist.phase = "removed" => favourites = hist.before

\* C10 witness: the round trip was made on a list that had an entry already
RoundTripOnNonEmptyList ==
    /\ hist.phase = "removed"
    /\ hist.last = "removed"
    /\ Len(hist.before) >= 1
    /\ favourites = hist.before

\* two results with the same commonName and no latinName on either side
SameNameNoLatin(a, b) ==
    /\ a["commonName"].t = "string"
    /\ a["commonName"].s # <<>>
    /\ a["commonName"] = b["commonName"]
    /\ a["latinName"] = Undef
    /\ b["latinName"] = Undef

\* the displayed result collides with a stored favourite
ResultCollides == ~result.isNull /\ \E i \in 1..Len(favourites) : SameNameNoLatin(favourites[i], result.obj)

\* C11: a result with the same commonName as a stored favourite, neither
\* having a latinName, is reported as a favourite whatever its other fields,
\* and toggling it removes the stored entry instead of adding a second one.
SameNameSharesFavouriteKey ==
    /\ [](ResultCollides => IsCurrentResultFavourite(result, favourites))
    /\ [][(ToggleCurrentResult /\ ResultCollides)
          => /\ Len(favourites') < Len(favourites)
             /\ \A j \in 1..Len(favourites') : ~SameNameNoLatin(favourites'[j], result.obj)]_vars

\* C11 witness: the result card shows a result that differs from the stored
\* favourite of the same name and is reported as a favourite
DifferentResultReportedFavourite ==
    /\ ResultCardShown
    /\ mountPc = "ready"
    /\ \E i \in 1..Len(favourites) :
         SameNameNoLatin(favourites[i], result.obj) /\ favourites[i] # result.obj
    /\ IsCurrentResultFavourite(result, favourites)

UserEvents ==
    {"upload", "invalid_file", "retry", "retry_without_image", "clear", "added", "removed",
     "added_twice", "toggle_ignored", "selected"}

PipelineFailureLeavesOnlyError ==
    hist.last \in {"read_failed", "not_identified", "threw"}
    => (~error.isNull /\ result.isNull /\ ~isLoading)

\* C15: when the call resolves with a null plantIdentification the result is
\* empty, the error is set with retryable false, and no retry is offered.
NullIdentificationNotRetryable ==
    hist.last = "not_identified"
    => (result.isNull /\ ~error.isNull /\ ~error.retryable /\ ~RetryOffered)

\* C15 witness: a null identification has settled while the image is kept
NullIdentificationSettled ==
    /\ hist.last = "not_identified"
    /\ imageDataUri # NoUri
    /\ ~error.isNull
    /\ ~isLoading

\* C16: selecting a file that is not an image sets a non-retryable error,
\* clears the preview, the data URI and the result, starts no request and
\* leaves isLoading and the favourites unchanged.
NonImageFileRejected ==
    [][hist'.last = "invalid_file"
       => /\ ~error'.isNull /\ ~error'.retryable
          /\ imagePreview' = NoUri /\ imageDataUri' = NoUri /\ result'.isNull
          /\ tasks' = tasks /\ started' = started
          /\ isLoading' = isLoading /\ favourites' = favourites]_vars

\* C16 witness: a non-image file was selected with favourites stored
NonImageFileSelected ==
    /\ hist.last = "invalid_file"
    /\ ~error.isNull
    /\ result.isNull
    /\ tasks = {}
    /\ Len(favourites) >= 1

\* C17: the favourites list changes only by a toggle or the initial load, and
\* a toggle leaves every other entry as it was.
FavouritesChangeOnlyByToggleOrLoad ==
    [][favourites' # favourites
       => /\ hist'.last \in {"added", "added_twice", "removed", "load"}
          /\ hist'.last \in {"added", "added_twice"}
                => \A i \in 1..Len(favourites) :
                      \E j \in 1..Len(favourites') : favourites'[j] = favourites[i]
          /\ hist'.last = "removed"
                => \A j \in 1..Len(favourites') :
                      \E i \in 1..Len(favourites) : favourites[i] = favourites'[j]]_vars

\* C17 witness: the plant of a favourite was identified again with other
\* field values, and the stored favourite kept its own
FavouriteKeptAfterReidentification ==
    /\ hist.last = "identified"
    /\ ~result.isNull
    /\ \E i \in 1..Len(favourites) :
          SameNameNoLatin(favourites[i], result.obj) /\ favourites[i] # result.obj

\* C18: an accepted result carries the candidate's commonName character for
\* character and, when it has a latinName, the candidate's latinName; only
\* isWeed, careInstructions, healthStatus and proposedActions may hold a value
\* that the candidate did not supply.
NamesNeverFabricated ==
    Accepted
    => /\ AcceptedObj["commonName"] = Candidate["commonName"]
       /\ AcceptedObj["latinName"] # Undef
             => AcceptedObj["latinName"] = Candidate["latinName"]
       /\ \A k \in SchemaFields \ Defaulted :
             \/ AcceptedObj[k] = Undef
             \/ AcceptedObj[k] = Candidate[k]
             \/ /\ k = "alternativeNames"
                /\ IsArray(AcceptedObj[k]) /\ IsArray(Candidate[k])
                /\ \A i \in 1..Len(AcceptedObj[k].a) :
                      \E j \in 1..Len(Candidate[k].a) :
                         AcceptedObj[k].a[i] = Candidate[k].a[j]

\* C18 witness: a repaired candidate whose name has surrounding space keeps
\* the name as it was supplied, next to its latinName
PaddedNameKeptByRepair ==
    /\ Accepted
    /\ ~SafeParse(Candidate).success
    /\ Candidate["commonName"] = Str(sRosePad)
    /\ AcceptedObj["commonName"] = Str(sRosePad)
    /\ Candidate["latinName"] = Str(sRosa)
    /\ AcceptedObj["latinName"] = Str(sRosa)

\* whether the entries of a appear in b, in the same order
RECURSIVE InOrderWithin(_, _)
InOrderWithin(a, b) ==
    IF a = <<>> THEN TRUE
    ELSE IF b = <<>> THEN FALSE
    ELSE IF Head(a) = Head(b) THEN InOrderWithin(Tail(a), Tail(b))
    ELSE InOrderWithin(a, Tail(b))

ResizeFailureFallsBackToOriginal ==
    /\ [](hist.last = "resize_failed" => \E t \in tasks : t.kind = "read")
    /\ [][hist'.last = "read"
           => /\ imageDataUri' # NoUri
              /\ imagePreview' = imageDataUri'
              /\ \E t \in IdentifyCalls' \ IdentifyCalls :
                    t.uri = imageDataUri' /\ t.uri = OriginalUri(t.file)]_vars
    /\ [][hist'.last = "read_failed"
           => /\ ~error'.isNull /\ ~error'.retryable
              /\ ~isLoading'
              /\ imagePreview' = NoUri /\ imageDataUri' = NoUri
              /\ IdentifyCalls' = IdentifyCalls
              /\ started' = started]_vars

\* C20 witness: resize and read both failed, nothing was sent
ResizeAndReadFailed ==
    /\ hist.last = "read_failed"
    /\ ~error.isNull
    /\ ~error.retryable
    /\ ~isLoading
    /\ imageDataUri = NoUri
    /\ IdentifyCalls = {}

\* C21: a removal clears the result exactly when the removed key is the key
\* of the displayed result, and leaves imagePreview, imageDataUri, error and
\* isLoading as they were.
RemovalClearsResultOfSameKeyOnly ==
    [][hist'.last = "removed"
       => /\ imagePreview' = imagePreview /\ imageDataUri' = imageDataUri
          /\ error' = error /\ isLoading' = isLoading
          /\ result' =
                IF CurrentResultId(result) \in
                      {PlantId(favourites[i]) : i \in 1..Len(favourites)}
                         \ {PlantId(favourites'[j]) : j \in 1..Len(favourites')}
                THEN NullRet ELSE result]_vars

\* C21 witness: the displayed result was removed from the favourites and
\* cleared, the image staying
DisplayedFavouriteRemoved ==
    /\ hist.last = "removed"
    /\ result.isNull
    /\ imageDataUri # NoUri
    /\ imagePreview # NoUri
    /\ error.isNull

\* C22: when an identification request settles isLoading is false, and
\* with nothing outstanding the component is not loading.
LoadingEndsWithRequests ==
    /\ [](tasks = {} => ~isLoading)
    /\ [][hist'.last \in {"identified", "not_identified", "threw"} => ~isLoading']_vars

\* C22 witness: the second request has thrown and nothing is outstanding
LastRequestThrew ==
    /\ hist.last = "threw"
    /\ started = 2
    /\ tasks = {}
    /\ ~isLoading

\* C23: no two entries of the favourites list have the same identity key.
NoDuplicateKeys ==
    IsListValue(favourites)
    => \A i, j \in 1..Len(favourites) :
          i # j => PlantId(favourites[i]) # PlantId(favourites[j])

\* whether two plants have the same commonName and the same latinName
SameNames(a, b) == a["commonName"] = b["commonName"] /\ a["latinName"] = b["latinName"]

\* C24: a favourite that has the key of the displayed result has its
\* commonName and its latinName.
KeyInjectiveOnNames ==
    (IsListValue(favourites) /\ ~result.isNull)
    => \A i \in 1..Len(favourites) :
          PlantId(favourites[i]) = PlantId(result.obj) => SameNames(favourites[i], result.obj)

\* C25: while no toggle has been made, the slot holds every entry of the
\* list that was stored when the component mounted.
SlotKeepsStoredEntries ==
    (hist.slotAtMount.kind = "json" /\ IsListValue(hist.slotAtMount.list) /\ ~hist.edited)
    => /\ storage.kind = "json"
       /\ \A i \in 1..Len(hist.slotAtMount.list) :
             \E j \in 1..Len(storage.list) : storage.list[j] = hist.slotAtMount.list[i]

\* C26: a candidate that passes the name check and fails validation is
\* rebuilt into an object that passes validation, and is accepted.
RepairAlwaysRevalidates ==
    (FlowDone /\ ~modelReply.threw /\ modelReply.hasOutput
       /\ ProperName(Candidate) /\ ~SafeParse(Candidate).success)
    => (SafeParse(PartialOutput(Candidate)).success /\ Accepted)

\* C26 witness: a candidate whose latinName is a number was rebuilt without it
NumericLatinNameRepaired ==
    /\ FlowDone
    /\ ProperName(Candidate)
    /\ ~SafeParse(Candidate).success
    /\ Candidate["latinName"] = Num(n123)
    /\ Accepted
    /\ AcceptedObj["latinName"] = Undef

\* C27: the result and the error are never both set.
ResultAndErrorExclusive == result.isNull \/ error.isNull

\* C28: a retryable error is held only with a stored image data URI.
RetryableErrorHasImage == (~error.isNull /\ error.retryable) => imageDataUri # NoUri

\* C29: an accepted result has a proper name, is schema-valid, and is
\* accepted unchanged when fed back as a candidate.
ReconcileIdempotent ==
    Accepted
    => /\ ProperName(AcceptedObj)
       /\ SafeParse(AcceptedObj).success
       /\ Reconcile(Reply(AcceptedObj)) = Some(AcceptedObj)

\* C29 witness: a repaired result, differing from its candidate, fed back
RepairedResultFedBack ==
    /\ Accepted
    /\ ~SafeParse(Candidate).success
    /\ AcceptedObj # Candidate
    /\ AcceptedObj["commonName"] = Str(sRosePad)
    /\ Reconcile(Reply(AcceptedObj)) = Some(AcceptedObj)

\* C30: stored text that is not valid JSON leaves the favourites empty and
\* everything else as it was, and the favourites value is always a list.
LoadedFavouritesIsList ==
    /\ [](IsListValue(favourites))
    /\ [][(hist'.last = "load" /\ storage = InvalidJson)
           => /\ favourites' = <<>>
              /\ UNCHANGED <<imagePreview, imageDataUri, isLoading, result, error, storage>>]_vars

====
